---- MODULE Spec2Model ----
(***************************************************************************)
(* The ScrollUniversity portal schema (backend/src/models/portal_models.py) *)
(* as a relational store driven through ORM sessions, the way the two test  *)
(* modules drive it: add, flush, commit, rollback, attribute update.        *)
(*                                                                          *)
(* A row is a record over the columns that are not NULL: a column missing   *)
(* from DOMAIN r is NULL.  Keyword arguments of a model constructor are     *)
(* such a record too, so "field not supplied" and "NULL" coincide, as they  *)
(* do for the ORM when it decides whether a column default fires.           *)
(* Float columns hold hundredths (0.00 is 0), identifiers (uuid4) are       *)
(* fresh naturals, DateTime values are readings of the store's clock.       *)
(***************************************************************************)
EXTENDS Integers, Sequences, FiniteSets, TLC

VARIABLES
    db,       \* [table -> set of committed rows]
    tx,       \* [session -> its open store transaction: began, ins, upd]
    pending,  \* [session -> sequence of unit-of-work entries not yet flushed]
    nextId,   \* the next identifier uuid.uuid4 hands out
    clock,    \* the store's clock, read by func.now()
    made,     \* how many unit-of-work entries the callers have made
    last,     \* the most recent session call and what it returned or raised
    heap      \* the Python objects given as default=: their contents (arg) and
              \* the loaded attributes that are those objects (refs)

vars == <<db, tx, pending, nextId, clock, made, last, heap>>

-----------------------------------------------------------------------------
(* Bounds of the model *)

MaxEntries == 3  \* objects added or modified in one run
MaxClock == 2    \* readings of the clock
MaxItems == 1    \* items put into a default dict or list in place

Sessions == {"s1", "s2"}

\* users.id and faculties.id: tables the schema references and does not declare
Users == {"u1", "u2"}
Faculties == {"f1", "f2"}

\* an identifier no row carries
DanglingId == MaxEntries + 1

-----------------------------------------------------------------------------
(* The declared schema *)

\* The Python values given to JSON columns: a dict is the sequence of its
\* <<key, value>> items in insertion order, a list the sequence of its items, a
\* number the pair <<digits, exponent>> of its decimal notation.
JObject(items) == <<"object", items>>

JArray(items) == <<"array", items>>

JString(str) == <<"string", str>>

JNumber(digits, exponent) == <<"number", <<digits, exponent>>>>

JTrue == <<"true", <<>>>>

JFalse == <<"false", <<>>>>

JNull == <<"null", <<>>>>

\* a Python tuple, which is no JSON document but which json.dumps accepts
PyTuple(items) == <<"tuple", items>>

EmptyObject == JObject(<<>>)

EmptyArray == JArray(<<>>)

\* The value is built from objects, arrays and scalars alone.
RECURSIVE IsJson(_)
IsJson(d) ==
    CASE d[1] = "object" -> \A i \in DOMAIN d[2] : IsJson(d[2][i][2])
      [] d[1] = "array" -> \A i \in DOMAIN d[2] : IsJson(d[2][i])
      [] d[1] = "tuple" -> FALSE
      [] OTHER -> TRUE

\* The tokens of the JSON text
Punct(ch) == <<"punct", ch>>

\* json.dumps: the JSON text of a Python value, as the sequence of its tokens
RECURSIVE Dumps(_), DumpsItems(_), DumpsMembers(_)
Dumps(d) ==
    CASE d[1] = "object" -> <<Punct("{")>> \o DumpsMembers(d[2]) \o <<Punct("}")>>
      [] d[1] \in {"array", "tuple"} ->
            <<Punct("[")>> \o DumpsItems(d[2]) \o <<Punct("]")>>
      [] d[1] = "string" -> <<<<"str", d[2]>>>>
      [] d[1] = "number" -> <<<<"num", d[2]>>>>
      [] OTHER -> <<<<"lit", d[1]>>>>

DumpsItems(items) ==
    IF Len(items) = 0 THEN <<>>
    ELSE IF Len(items) = 1 THEN Dumps(Head(items))
    ELSE Dumps(Head(items)) \o <<Punct(",")>> \o DumpsItems(Tail(items))

DumpsMembers(items) ==
    IF Len(items) = 0 THEN <<>>
    ELSE LET member == <<<<"str", Head(items)[1]>>, Punct(":")>> \o Dumps(Head(items)[2])
         IN  IF Len(items) = 1 THEN member
             ELSE member \o <<Punct(",")>> \o DumpsMembers(Tail(items))

IsPunct(tok, ch) == tok[1] = "punct" /\ tok[2] = ch

\* json.loads: the decoder reads one value from the head of the tokens and
\* answers <<value, tokens left>>
RECURSIVE ParseValue(_), ParseItems(_, _), ParseMembers(_, _)
ParseValue(toks) ==
    LET tok == Head(toks) IN
    CASE tok[1] = "str" -> <<JString(tok[2]), Tail(toks)>>
      [] tok[1] = "num" -> <<<<"number", tok[2]>>, Tail(toks)>>
      [] tok[1] = "lit" -> <<<<tok[2], <<>>>>, Tail(toks)>>
      [] IsPunct(tok, "{") -> ParseMembers(Tail(toks), <<>>)
      [] IsPunct(tok, "[") -> ParseItems(Tail(toks), <<>>)

\* the items of an array, after "[" or ","
ParseItems(toks, seen) ==
    IF IsPunct(Head(toks), "]") THEN <<JArray(seen), Tail(toks)>>
    ELSE LET item == ParseValue(toks)
             rest == item[2]
         IN  IF IsPunct(Head(rest), ",")
             THEN ParseItems(Tail(rest), Append(seen, item[1]))
             ELSE ParseItems(rest, Append(seen, item[1]))

\* the members of an object, after "{" or ","
ParseMembers(toks, seen) ==
    IF IsPunct(Head(toks), "}") THEN <<JObject(seen), Tail(toks)>>
    ELSE LET key == Head(toks)[2]
             item == ParseValue(Tail(Tail(toks)))
             rest == item[2]
         IN  IF IsPunct(Head(rest), ",")
             THEN ParseMembers(Tail(rest), Append(seen, <<key, item[1]>>))
             ELSE ParseMembers(rest, Append(seen, <<key, item[1]>>))

Loads(toks) == ParseValue(toks)[1]

\* (a store of flat documents: a nested object or array reads back as null)
JsonFlat(d) ==
    LET Scalar(x) == IF x[1] \in {"object", "array", "tuple"} THEN JNull ELSE x
    IN  CASE d[1] = "object" ->
                JObject([i \in DOMAIN d[2] |-> <<d[2][i][1], Scalar(d[2][i][2])>>])
          [] d[1] \in {"array", "tuple"} ->
                JArray([i \in DOMAIN d[2] |-> Scalar(d[2][i])])
          [] OTHER -> d

\* What a JSON column reads back with: the bind processor serialises the Python
\* value with json.dumps, the result processor deserialises the stored text with
\* json.loads.
Json(d) == Loads(Dumps(d))

\* the tables of portal_models.py
PortalTables ==
    {"portal_courses", "portal_enrollments", "ai_tutor_sessions", "scroll_nodes",
     "scholarships", "scholarship_applications", "xr_classrooms",
     "xr_classroom_participants", "faculty_members", "user_preferences",
     "portal_analytics"}

\* the tables test_portal_schema_simple.py declares on a Base of its own
SimpleTables ==
    {"test_portal_courses", "test_portal_enrollments", "test_ai_tutor_sessions",
     "test_scroll_nodes", "test_scholarships"}

Tables == PortalTables \cup SimpleTables

\* the table of the simplified schema that stands for table t
Simplified(t) ==
    CASE t = "portal_courses" -> "test_portal_courses"
      [] t = "portal_enrollments" -> "test_portal_enrollments"
      [] t = "ai_tutor_sessions" -> "test_ai_tutor_sessions"
      [] t = "scroll_nodes" -> "test_scroll_nodes"
      [] t = "scholarships" -> "test_scholarships"

PrimaryKey(t) ==
    CASE t = "portal_courses" -> "portal_course_id"
      [] t = "portal_enrollments" -> "enrollment_id"
      [] t = "ai_tutor_sessions" -> "session_id"
      [] t = "scroll_nodes" -> "node_id"
      [] t = "scholarships" -> "scholarship_id"
      [] t = "scholarship_applications" -> "application_id"
      [] t = "xr_classrooms" -> "classroom_id"
      [] t = "xr_classroom_participants" -> "participant_id"
      [] t = "faculty_members" -> "member_id"
      [] t = "user_preferences" -> "preference_id"
      [] t = "portal_analytics" -> "analytics_id"
      [] t = "test_portal_courses" -> "portal_course_id"
      [] t = "test_portal_enrollments" -> "enrollment_id"
      [] t = "test_ai_tutor_sessions" -> "session_id"
      [] t = "test_scroll_nodes" -> "node_id"
      [] t = "test_scholarships" -> "scholarship_id"

\* nullable=False
PortalCourseRequiredNoTitle == {"course_spec_id"}

PortalCourseRequired == {"course_spec_id", "title"}

Required(t) ==
    CASE t = "portal_courses" -> PortalCourseRequired
      [] t = "portal_enrollments" -> {"user_id", "portal_course_id"}
      [] t = "ai_tutor_sessions" -> {"user_id", "tutor_type"}
      [] t = "scroll_nodes" -> {"name"}
      [] t = "scholarships" -> {"name"}
      [] t = "scholarship_applications" -> {"scholarship_id", "user_id"}
      [] t = "xr_classrooms" -> {"portal_course_id", "session_name", "scheduled_time"}
      [] t = "xr_classroom_participants" -> {"classroom_id", "user_id"}
      [] t = "faculty_members" -> {"user_id", "faculty_id"}
      [] t = "user_preferences" -> {"user_id"}
      [] t = "portal_analytics" -> {"user_id", "event_type"}
      [] t = "test_portal_courses" -> {"course_spec_id", "title"}
      [] t = "test_portal_enrollments" -> {"user_id", "portal_course_id"}
      [] t = "test_ai_tutor_sessions" -> {"user_id", "tutor_type"}
      [] t = "test_scroll_nodes" -> {"name"}
      [] t = "test_scholarships" -> {"name"}

\* default=<literal>
Defaults(t) ==
    CASE t = "portal_courses" ->
            [level |-> "Introductory", duration_weeks |-> 4, xp_reward |-> 100,
             scroll_coin_cost |-> 0, featured |-> FALSE, enrollment_open |-> TRUE,
             enrollment_count |-> 0, rating |-> 0]
      [] t = "portal_enrollments" ->
            [progress_percentage |-> 0, xp_earned |-> 0, scroll_coins_earned |-> 0,
             status |-> "active"]
      [] t = "ai_tutor_sessions" ->
            [session_data |-> EmptyObject, conversation_history |-> EmptyArray,
             status |-> "active"]
      [] t = "scroll_nodes" ->
            [status |-> "active", sync_enabled |-> TRUE, node_type |-> "standard",
             connectivity_level |-> "high", configuration |-> EmptyObject]
      [] t = "scholarships" ->
            [currency |-> "ScrollCoin", scholarship_type |-> "merit",
             eligibility_criteria |-> EmptyObject, current_recipients |-> 0,
             is_active |-> TRUE]
      [] t = "scholarship_applications" ->
            [application_data |-> EmptyObject, status |-> "submitted"]
      [] t = "xr_classrooms" ->
            [duration_minutes |-> 60, max_participants |-> 30,
             current_participants |-> 0, recording_enabled |-> TRUE,
             status |-> "scheduled", access_requirements |-> EmptyObject]
      [] t = "xr_classroom_participants" -> [interaction_data |-> EmptyObject]
      [] t = "faculty_members" ->
            [office_hours |-> EmptyObject, ai_dean_integration |-> FALSE,
             is_active |-> TRUE]
      [] t = "user_preferences" ->
            [theme |-> "light",
             notifications |->
                JObject(<<<<"email", JTrue>>, <<"push", JTrue>>, <<"sms", JFalse>>>>),
             privacy_settings |->
                JObject(<<<<"profile_public", JTrue>>, <<"progress_public", JFalse>>>>),
             learning_preferences |-> EmptyObject,
             accessibility_settings |-> EmptyObject]
      [] t = "portal_analytics" -> [event_data |-> EmptyObject]
      [] t = "test_portal_courses" ->
            [level |-> "Introductory", duration_weeks |-> 4, xp_reward |-> 100,
             scroll_coin_cost |-> 0, featured |-> FALSE, enrollment_open |-> TRUE,
             enrollment_count |-> 0, rating |-> 0]
      [] t = "test_portal_enrollments" ->
            [progress_percentage |-> 0, xp_earned |-> 0, scroll_coins_earned |-> 0,
             status |-> "active"]
      [] t = "test_ai_tutor_sessions" ->
            [session_data |-> EmptyObject, conversation_history |-> EmptyArray,
             status |-> "active"]
      [] t = "test_scroll_nodes" ->
            [status |-> "active", sync_enabled |-> TRUE, node_type |-> "standard",
             connectivity_level |-> "high", configuration |-> EmptyObject]
      [] t = "test_scholarships" ->
            [currency |-> "ScrollCoin", scholarship_type |-> "merit",
             eligibility_criteria |-> EmptyObject, current_recipients |-> 0,
             is_active |-> TRUE]

\* default=func.now()
NowColumns(t) ==
    CASE t = "portal_enrollments" -> {"enrollment_date", "created_at", "updated_at"}
      [] t = "ai_tutor_sessions" -> {"started_at", "created_at", "updated_at"}
      [] t = "scholarship_applications" -> {"applied_at", "created_at", "updated_at"}
      [] t = "xr_classroom_participants" -> {"created_at"}
      [] t = "portal_analytics" -> {"timestamp", "created_at"}
      [] t = "test_portal_courses" -> {"created_at"}
      [] t = "test_portal_enrollments" -> {"enrollment_date"}
      [] t = "test_ai_tutor_sessions" -> {"started_at"}
      [] t \in {"test_scroll_nodes", "test_scholarships"} -> {}
      [] OTHER -> {"created_at", "updated_at"}

\* onupdate=func.now()
OnUpdateColumns(t) ==
    IF t \in {"xr_classroom_participants", "portal_analytics"} \cup SimpleTables
    THEN {}
    ELSE {"updated_at"}

\* UniqueConstraint(...) and unique=True, one set of columns per constraint
PortalEnrollmentUniqueMissing == {}

PortalEnrollmentUniqueWithId == {{"enrollment_id", "user_id", "portal_course_id"}}

\* (a constraint on the user alone: one enrollment per user)
PortalEnrollmentUniqueUserOnly == {{"user_id"}}

PortalEnrollmentUnique == {{"user_id", "portal_course_id"}}

ScholarshipApplicationUniqueMissing == {}

ScholarshipApplicationUnique == {{"scholarship_id", "user_id"}}

XRClassroomParticipantUniqueMissing == {}

XRClassroomParticipantUnique == {{"classroom_id", "user_id"}}

FacultyMemberUniqueMissing == {}

FacultyMemberUnique == {{"user_id", "faculty_id"}}

UserPreferencesUniqueMissing == {}

UserPreferencesUnique == {{"user_id"}}

UniqueConstraints(t) ==
    CASE t = "portal_enrollments" -> PortalEnrollmentUnique
      [] t = "scholarship_applications" -> ScholarshipApplicationUnique
      [] t = "xr_classroom_participants" -> XRClassroomParticipantUnique
      [] t = "faculty_members" -> FacultyMemberUnique
      [] t = "user_preferences" -> UserPreferencesUnique
      [] OTHER -> {}

\* ForeignKey('<table>.<column>')
ForeignKeys(t) ==
    CASE t = "portal_courses" -> {[col |-> "faculty_id", ref |-> "faculties"]}
      [] t = "portal_enrollments" ->
            {[col |-> "user_id", ref |-> "users"],
             [col |-> "portal_course_id", ref |-> "portal_courses"]}
      [] t = "ai_tutor_sessions" ->
            {[col |-> "user_id", ref |-> "users"],
             [col |-> "portal_course_id", ref |-> "portal_courses"]}
      [] t = "scroll_nodes" -> {[col |-> "coordinator_id", ref |-> "users"]}
      [] t = "scholarships" -> {[col |-> "created_by", ref |-> "users"]}
      [] t = "scholarship_applications" ->
            {[col |-> "scholarship_id", ref |-> "scholarships"],
             [col |-> "user_id", ref |-> "users"],
             [col |-> "reviewed_by", ref |-> "users"]}
      [] t = "xr_classrooms" ->
            {[col |-> "portal_course_id", ref |-> "portal_courses"],
             [col |-> "instructor_id", ref |-> "users"]}
      [] t = "xr_classroom_participants" ->
            {[col |-> "classroom_id", ref |-> "xr_classrooms"],
             [col |-> "user_id", ref |-> "users"]}
      [] t = "faculty_members" ->
            {[col |-> "user_id", ref |-> "users"],
             [col |-> "faculty_id", ref |-> "faculties"]}
      [] t = "user_preferences" -> {[col |-> "user_id", ref |-> "users"]}
      [] t = "portal_analytics" -> {[col |-> "user_id", ref |-> "users"]}
      [] t \in SimpleTables -> {}

\* the column of table t that names its required parent, and the parent's table
ParentColumn(t) ==
    CASE t = "portal_enrollments" -> "portal_course_id"
      [] t = "xr_classrooms" -> "portal_course_id"
      [] t = "scholarship_applications" -> "scholarship_id"
      [] t = "xr_classroom_participants" -> "classroom_id"

ParentTable(t) ==
    CASE t = "portal_enrollments" -> "portal_courses"
      [] t = "xr_classrooms" -> "portal_courses"
      [] t = "scholarship_applications" -> "scholarships"
      [] t = "xr_classroom_participants" -> "xr_classrooms"

ChildTables ==
    {"portal_enrollments", "xr_classrooms", "scholarship_applications",
     "xr_classroom_participants"}

\* the counter a parent keeps of its children, and the cap it declares for them
CounterColumn(p) ==
    CASE p = "portal_courses" -> "enrollment_count"
      [] p = "scholarships" -> "current_recipients"
      [] p = "xr_classrooms" -> "current_participants"

CapColumn(p) ==
    CASE p = "scholarships" -> "max_recipients"
      [] p = "xr_classrooms" -> "max_participants"

CountedTables ==
    {"portal_enrollments", "scholarship_applications", "xr_classroom_participants"}

\* The order in which a flush writes tables: a table after the tables it references.
TableRank(t) ==
    CASE t \in {"portal_enrollments", "ai_tutor_sessions", "scholarship_applications",
                "xr_classrooms"} -> 1
      [] t = "xr_classroom_participants" -> 2
      [] OTHER -> 0

-----------------------------------------------------------------------------
(* The store as one transaction sees it *)

NoTransaction ==
    [began |-> 0, ins |-> [t \in Tables |-> {}], upd |-> [t \in Tables |-> {}]]

\* The rows of table t a transaction with writes w reads: the committed rows it has
\* not rewritten, its new versions of those, and the rows it inserted.
Visible(w, t) ==
    {x \in db[t] : \A y \in w.upd[t] : y[PrimaryKey(t)] # x[PrimaryKey(t)]}
        \cup w.upd[t] \cup w.ins[t]

\* The uncommitted rows of the other sessions' transactions, and the committed rows
\* those transactions hold locked because they rewrote them.
Locked(s, t) ==
    UNION {{x \in db[t] : \E y \in tx[o].upd[t] : y[PrimaryKey(t)] = x[PrimaryKey(t)]}
              : o \in Sessions \ {s}}

InFlight(s, t) ==
    Locked(s, t) \cup UNION {tx[o].ins[t] \cup tx[o].upd[t] : o \in Sessions \ {s}}

SameKey(u, x, r) ==
    /\ u \subseteq DOMAIN x
    /\ u \subseteq DOMAIN r
    /\ \A c \in u : x[c] = r[c]

\* (a store that enforces the unique constraints but not the primary key)
KeysUniqueOnly(t) == UniqueConstraints(t)

\* The primary key and every unique constraint of t.
Keys(t) == UniqueConstraints(t) \cup {{PrimaryKey(t)}}

Conflicts(t, r, rows) == \E x \in rows, u \in Keys(t) : SameKey(u, x, r)

Referenced(w, ref) ==
    CASE ref = "users" -> Users
      [] ref = "faculties" -> Faculties
      [] OTHER -> {x[PrimaryKey(ref)] : x \in Visible(w, ref)}

\* (a store whose foreign keys refuse a null reference)
ForeignKeyOkNotNull(w, t, r) ==
    \A fk \in ForeignKeys(t) :
        fk.col \in DOMAIN r /\ r[fk.col] \in Referenced(w, fk.ref)

\* (a store that does not enforce its foreign keys, as SQLite by default)
ForeignKeyOkUnenforced(w, t, r) == TRUE

\* A foreign key holds when the column is NULL or names a row the transaction sees.
ForeignKeyOk(w, t, r) ==
    \A fk \in ForeignKeys(t) :
        fk.col \in DOMAIN r => r[fk.col] \in Referenced(w, fk.ref)

\* (a store that looks at committed rows only, letting two open transactions write
\* the same key)
CheckCommittedOnly(s, w, t, r, rows) ==
    IF ~(Required(t) \subseteq DOMAIN r) THEN "NotNullViolation"
    ELSE IF Conflicts(t, r, rows) THEN "UniqueViolation"
    ELSE IF ~ForeignKeyOk(w, t, r) THEN "ForeignKeyViolation"
    ELSE "ok"

\* What the store answers to writing row r of table t beside the rows `rows`:
\* "ok", the violation it raises, or "block" while the answer hangs on another
\* session's open transaction.
Check(s, w, t, r, rows) ==
    IF ~(Required(t) \subseteq DOMAIN r) THEN "NotNullViolation"
    ELSE IF Conflicts(t, r, rows \ Locked(s, t)) THEN "UniqueViolation"
    ELSE IF Conflicts(t, r, InFlight(s, t)) THEN "block"
    ELSE IF ~ForeignKeyOk(w, t, r) THEN "ForeignKeyViolation"
    ELSE "ok"

\* Column(JSON, ...)
JsonColumns(t) ==
    CASE t = "ai_tutor_sessions" -> {"session_data", "conversation_history"}
      [] t = "scroll_nodes" -> {"configuration"}
      [] t = "scholarships" -> {"eligibility_criteria"}
      [] t = "scholarship_applications" -> {"application_data"}
      [] t = "xr_classrooms" -> {"access_requirements"}
      [] t = "xr_classroom_participants" -> {"interaction_data"}
      [] t = "faculty_members" -> {"office_hours"}
      [] t = "user_preferences" ->
            {"notifications", "privacy_settings", "learning_preferences",
             "accessibility_settings"}
      [] t = "portal_analytics" -> {"event_data"}
      [] t = "test_ai_tutor_sessions" -> {"session_data", "conversation_history"}
      [] t = "test_scroll_nodes" -> {"configuration"}
      [] t = "test_scholarships" -> {"eligibility_criteria"}
      [] OTHER -> {}

\* The columns whose default= is a dict or list literal: one Python object, made
\* when the class is declared and held by the Column for every later INSERT.
MutableDefaults ==
    UNION {{<<t, c>> : c \in JsonColumns(t) \cap DOMAIN Defaults(t)} : t \in Tables}

\* the contents those objects are declared with
Declared == [arg |-> [p \in MutableDefaults |-> Defaults(p[1])[p[2]]], refs |-> {}]

\* The values of r as the statement binds them and a query reads them back.
Bind(t, r) == [c \in DOMAIN r |-> IF c \in JsonColumns(t) THEN Json(r[c]) ELSE r[c]]

\* (an INSERT that fires no column default)
NewRowKeywordsOnly(t, kw, id, now) ==
    kw @@ (PrimaryKey(t) :> id) @@ [c \in NowColumns(t) |-> now]

\* (an INSERT whose column defaults replace the supplied values)
NewRowDefaultsFirst(t, kw, id, now) ==
    Defaults(t) @@ kw @@ (PrimaryKey(t) :> id) @@ [c \in NowColumns(t) |-> now]

\* The row an INSERT writes: the supplied values, a generated primary key when
\* none is supplied, and the column defaults for the columns left out.
NewRow(t, kw, id, now) ==
    Bind(t, kw @@ (PrimaryKey(t) :> id) @@ Defaults(t)) @@ [c \in NowColumns(t) |-> now]

\* (an UPDATE that fires the column defaults again)
UpdatedRowDefaultsAgain(t, old, kw, now) ==
    kw @@ [c \in OnUpdateColumns(t) |-> now] @@ Defaults(t) @@ old

\* (an UPDATE that generates the identifier again)
UpdatedRowNewIdentifier(t, old, kw, now) ==
    (PrimaryKey(t) :> old[PrimaryKey(t)] + MaxEntries)
        @@ kw @@ [c \in OnUpdateColumns(t) |-> now] @@ old

\* The row an UPDATE leaves: the changed values over the stored row, and the
\* onupdate columns.
UpdatedRow(t, old, kw, now) ==
    Bind(t, kw) @@ [c \in OnUpdateColumns(t) |-> now] @@ old

\* An attribute set to the value it already has is no change: no UPDATE is sent.
NetChange(old, kw) == \E c \in DOMAIN kw : c \notin DOMAIN old \/ old[c] # kw[c]

-----------------------------------------------------------------------------
(* The unit of work: what flush() sends to the store *)

\* func.now() inside a transaction is the time the transaction began.
Now(s) == IF tx[s].began > 0 THEN tx[s].began ELSE clock

\* The running state of one flush: the transaction's writes so far, the next
\* identifier, and "ok" until a statement is refused.
NoRow == [tbl |-> "none"]

Working(s) ==
    [began |-> Now(s), ins |-> tx[s].ins, upd |-> tx[s].upd, id |-> nextId,
     status |-> "ok", failed |-> NoRow, refs |-> {}]

\* (an INSERT of a child that also adds one to the counter of its parent, as a
\* trigger or an event listener would)
InsertCounting(s, w, e, now) ==
    LET t == e.tbl
        r == NewRow(t, e.kw, w.id, now)
        c == Check(s, w, t, r, Visible(w, t))
    IN  IF c # "ok"
        THEN [w EXCEPT !.status = c, !.id = @ + 1,
                       !.failed = [tbl |-> t, row |-> r]]
        ELSE IF t \notin CountedTables
        THEN [w EXCEPT !.ins[t] = @ \cup {r}, !.id = @ + 1]
        ELSE LET p == ParentTable(t)
                 old == CHOOSE x \in Visible(w, p) :
                            x[PrimaryKey(p)] = r[ParentColumn(t)]
                 new == [old EXCEPT ![CounterColumn(p)] = @ + 1]
             IN  [w EXCEPT !.ins[t] = @ \cup {r}, !.id = @ + 1,
                           !.upd[p] = {y \in @ : y[PrimaryKey(p)] # old[PrimaryKey(p)]}
                                          \cup {new}]

\* A scalar default is bound as the very object the Column holds, with the
\* contents the object has at the time of the flush, and after the INSERT the
\* instance's attribute is that object.
Prefetched(t, kw) ==
    [c \in {c \in JsonColumns(t) : <<t, c>> \in MutableDefaults} \ DOMAIN kw |->
        heap.arg[<<t, c>>]]

Insert(s, w, e, now) ==
    LET t == e.tbl
        r == NewRow(t, e.kw @@ Prefetched(t, e.kw), w.id, now)
        c == Check(s, w, t, r, Visible(w, t))
    IN  IF c = "ok"
        THEN [w EXCEPT !.ins[t] = @ \cup {r}, !.id = @ + 1,
                       !.refs = @ \cup {<<t, r[PrimaryKey(t)], col>> :
                                           col \in DOMAIN Prefetched(t, e.kw)}]
        ELSE [w EXCEPT !.status = c, !.id = @ + 1,
                       !.failed = [tbl |-> t, row |-> r]]

Update(s, w, e, now) ==
    LET t == e.tbl
        pk == PrimaryKey(t)
        old == CHOOSE x \in Visible(w, t) : x[pk] = e.id
        r == UpdatedRow(t, old, e.kw, now)
        c == Check(s, w, t, r, Visible(w, t) \ {old})
    IN  IF ~NetChange(old, e.kw) THEN w
        ELSE IF \E x \in Locked(s, t) : x[pk] = e.id THEN [w EXCEPT !.status = "block"]
        ELSE IF c # "ok"
        THEN [w EXCEPT !.status = c, !.failed = [tbl |-> t, row |-> r]]
        ELSE IF old \in w.ins[t] THEN [w EXCEPT !.ins[t] = (@ \ {old}) \cup {r}]
        ELSE [w EXCEPT !.upd[t] = {y \in @ : y[pk] # e.id} \cup {r}]

\* The entries of a flush in the order it writes them: tables in dependency order,
\* the UPDATEs of a table before its INSERTs, otherwise in the order they were made.
RankOf(e) == 2 * TableRank(e.tbl) + (IF e.kind = "update" THEN 0 ELSE 1)

RECURSIVE Keep(_, _)
Keep(seq, k) ==
    IF seq = <<>> THEN <<>>
    ELSE IF RankOf(Head(seq)) = k THEN <<Head(seq)>> \o Keep(Tail(seq), k)
    ELSE Keep(Tail(seq), k)

Ordered(seq) ==
    Keep(seq, 0) \o Keep(seq, 1) \o Keep(seq, 2) \o Keep(seq, 3) \o Keep(seq, 4)
        \o Keep(seq, 5)

RECURSIVE Run(_, _, _, _)
Run(s, w, seq, now) ==
    IF seq = <<>> \/ w.status # "ok" THEN w
    ELSE Run(s,
             IF Head(seq).kind = "insert"
             THEN Insert(s, w, Head(seq), now)
             ELSE Update(s, w, Head(seq), now),
             Tail(seq), now)

Flushed(s) == Run(s, Working(s), Ordered(pending[s]), Now(s))

\* (a commit that keeps, of a table it inserted into, the rows of its own
\* transaction only)
CommittedStoreOwnRows(w) ==
    [t \in Tables |-> IF w.ins[t] # {} THEN w.ins[t] \cup w.upd[t] ELSE Visible(w, t)]

\* The committed rows after a transaction with writes w commits, and after it fails.
CommittedStore(w) == [t \in Tables |-> Visible(w, t)]

\* (a failed transaction whose earlier writes stay)
RolledBackStoreKeepsWritten(w) == CommittedStore(w)

\* (a refused duplicate that replaces the row it collided with)
RolledBackStoreUpsert(w) ==
    IF w.status # "UniqueViolation" THEN db
    ELSE [db EXCEPT ![w.failed.tbl] =
             {x \in @ : ~Conflicts(w.failed.tbl, w.failed.row, {x})}
                 \cup {w.failed.row}]

RolledBackStore(w) == db

\* How many rows a session's unit of work holds: entries pending and rows written.
Units(s) ==
    Len(pending[s])
        + Cardinality(UNION {{<<t, x[PrimaryKey(t)]>> : x \in tx[s].ins[t] \cup tx[s].upd[t]}
                                : t \in Tables})

\* What the caller of flush() or commit() gets: a return, or the IntegrityError the
\* store's refusal is raised as, naming the violated constraint and the refused row.
Call(s, op, w) ==
    [sess |-> s, op |-> op,
     result |-> IF w.status = "ok" THEN "ok" ELSE "IntegrityError",
     error |-> IF w.status = "ok" THEN "none" ELSE w.status,
     failed |-> w.failed,
     units |-> Units(s)]

-----------------------------------------------------------------------------
(* What the callers supply *)

KnownIds(s, t) == {x[PrimaryKey(t)] : x \in Visible(tx[s], t)}

Kwargs(s, t) ==
    CASE t = "portal_courses" ->
            {[course_spec_id |-> "spec1", title |-> "Test Course"],
             [course_spec_id |-> "spec1"]}
      [] t = "portal_enrollments" ->
            {[user_id |-> u, portal_course_id |-> c] :
                u \in Users, c \in KnownIds(s, "portal_courses")}
                \cup {[user_id |-> "u1", portal_course_id |-> DanglingId]}
      [] t = "scholarships" -> {[name |-> "Test Scholarship", amount |-> 50000]}
      [] t = "scholarship_applications" ->
            {[scholarship_id |-> c, user_id |-> u] :
                u \in Users, c \in KnownIds(s, "scholarships")}
                \cup {[scholarship_id |-> DanglingId, user_id |-> "u1"]}
      [] t = "xr_classrooms" ->
            {[portal_course_id |-> c, session_name |-> "Test XR Session",
              scheduled_time |-> MaxClock] :
                c \in KnownIds(s, "portal_courses") \cup {DanglingId}}
      [] t = "xr_classroom_participants" ->
            {[classroom_id |-> c, user_id |-> u] :
                u \in Users, c \in KnownIds(s, "xr_classrooms")}
                \cup {[classroom_id |-> DanglingId, user_id |-> "u1"]}
      [] t = "faculty_members" ->
            {[user_id |-> u, faculty_id |-> f] : u \in Users, f \in Faculties}
      [] t = "user_preferences" ->
            {[user_id |-> u] : u \in Users} \cup {[user_id |-> "u1", theme |-> "dark"]}
      [] OTHER -> {}

Changes(s, t) ==
    CASE t = "portal_courses" -> {[title |-> "Renamed Course"]}
      [] t = "portal_enrollments" ->
            {[user_id |-> u] : u \in Users} \cup {[status |-> "completed"]}
      [] t = "scholarships" -> {[is_active |-> FALSE]}
      [] t = "scholarship_applications" ->
            {[user_id |-> u] : u \in Users} \cup {[status |-> "approved"]}
      [] t = "xr_classrooms" -> {[status |-> "live"]}
      [] t = "xr_classroom_participants" ->
            {[user_id |-> "u1"], [participation_score |-> 9000]}
      [] t = "faculty_members" ->
            {[faculty_id |-> "f1"], [is_active |-> FALSE]}
      [] t = "user_preferences" ->
            {[user_id |-> "u1"], [theme |-> "dark"]}
      [] OTHER -> {}

\* What `last` holds after a call that reaches no store statement.
Idle ==
    [sess |-> "none", op |-> "none", result |-> "ok", error |-> "none",
     failed |-> NoRow, units |-> 0]

-----------------------------------------------------------------------------
(* The session calls *)

Init ==
    /\ db = [t \in Tables |-> {}]
    /\ tx = [s \in Sessions |-> NoTransaction]
    /\ pending = [s \in Sessions |-> <<>>]
    /\ nextId = 1
    /\ clock = 1
    /\ made = 0
    /\ last = Idle
    /\ heap = Declared

\* The attributes an object holds: the constructor, and each assignment, copies
\* the values it is given into the object's own attribute dictionary.
Attributes(kw) == [c \in DOMAIN kw |-> kw[c]]

\* session.add(Model(**kw))
Add(s, t) ==
    \E kw \in Kwargs(s, t) :
        /\ made < MaxEntries
        /\ pending' = [pending EXCEPT
                          ![s] = Append(@, [kind |-> "insert", tbl |-> t,
                                            kw |-> Attributes(kw)])]
        /\ made' = made + 1
        /\ last' = Idle
        /\ UNCHANGED <<db, tx, nextId, clock, heap>>

\* obj.<column> = value, on an object the session has loaded or flushed
Modify(s, t) ==
    \E id \in KnownIds(s, t), kw \in Changes(s, t) :
        /\ made < MaxEntries
        /\ pending' = [pending EXCEPT
                          ![s] = Append(@, [kind |-> "update", tbl |-> t, id |-> id,
                                            kw |-> Attributes(kw)])]
        /\ made' = made + 1
        /\ last' = Idle
        /\ UNCHANGED <<db, tx, nextId, clock, heap>>

\* After a flush the instances of session s hold the prefetched defaults in their
\* attributes; a commit or rollback expires every attribute of its instances
\* (expire_on_commit), which are then read from the store again.
Loaded(s, refs) == [heap EXCEPT !.refs = @ \cup {<<s>> \o ref : ref \in refs}]

Expired(s) == [heap EXCEPT !.refs = {ref \in @ : ref[1] # s}]

\* session.flush(): the pending entries go to the store inside the transaction;
\* a refused statement rolls the transaction back and raises IntegrityError.
Flush(s) ==
    LET w == Flushed(s) IN
    /\ pending[s] # <<>>
    /\ w.status # "block"
    /\ tx' = [tx EXCEPT ![s] = IF w.status = "ok"
                               THEN [began |-> w.began, ins |-> w.ins, upd |-> w.upd]
                               ELSE NoTransaction]
    /\ db' = IF w.status = "ok" THEN db ELSE RolledBackStore(w)
    /\ pending' = [pending EXCEPT ![s] = <<>>]
    /\ nextId' = w.id
    /\ last' = Call(s, "flush", w)
    /\ heap' = IF w.status = "ok" THEN Loaded(s, w.refs) ELSE Expired(s)
    /\ UNCHANGED <<clock, made>>

\* session.commit(): flush, then COMMIT; on IntegrityError nothing is committed.
Commit(s) ==
    LET w == Flushed(s) IN
    /\ pending[s] # <<>> \/ tx[s] # NoTransaction
    /\ w.status # "block"
    /\ db' = IF w.status = "ok" THEN CommittedStore(w) ELSE RolledBackStore(w)
    /\ tx' = [tx EXCEPT ![s] = NoTransaction]
    /\ pending' = [pending EXCEPT ![s] = <<>>]
    /\ nextId' = w.id
    /\ last' = Call(s, "commit", w)
    /\ heap' = Expired(s)
    /\ UNCHANGED <<clock, made>>

\* session.rollback(), and session.close() with work outstanding
Rollback(s) ==
    /\ pending[s] # <<>> \/ tx[s] # NoTransaction
    /\ tx' = [tx EXCEPT ![s] = NoTransaction]
    /\ pending' = [pending EXCEPT ![s] = <<>>]
    /\ last' = Idle
    /\ heap' = Expired(s)
    /\ UNCHANGED <<db, nextId, clock, made>>

\* time passes
Tick ==
    /\ clock < MaxClock
    /\ clock' = clock + 1
    /\ UNCHANGED <<db, tx, pending, nextId, made, last, heap>>

Session(s, T) ==
    \/ \E t \in T : Add(s, t)
    \/ \E t \in T : Modify(s, t)
    \/ Flush(s)
    \/ Commit(s)
    \/ Rollback(s)

EnrollmentTables == {"portal_courses", "portal_enrollments"}

Next == Tick \/ \E s \in Sessions : Session(s, EnrollmentTables)

Spec == Init /\ [][Next]_vars

\* Scholarships and their applications
ScholarshipTables == {"scholarships", "scholarship_applications"}

NextScholarship == Tick \/ \E s \in Sessions : Session(s, ScholarshipTables)

SpecScholarship == Init /\ [][NextScholarship]_vars

\* XR classrooms and their participants, from a store that holds a course and a
\* classroom scheduled for it
SeedCourse ==
    NewRow("portal_courses", [course_spec_id |-> "spec1", title |-> "Test Course"], 1, 1)

SeedClassroom ==
    NewRow("xr_classrooms",
           [portal_course_id |-> 1, session_name |-> "Test XR Session",
            scheduled_time |-> 1], 2, 1)

InitXR ==
    /\ db = [t \in Tables |->
                CASE t = "portal_courses" -> {SeedCourse}
                  [] t = "xr_classrooms" -> {SeedClassroom}
                  [] OTHER -> {}]
    /\ tx = [s \in Sessions |-> NoTransaction]
    /\ pending = [s \in Sessions |-> <<>>]
    /\ nextId = 3
    /\ clock = 1
    /\ made = 0
    /\ last = Idle
    /\ heap = Declared

XRTables == {"xr_classrooms", "xr_classroom_participants"}

NextXR == Tick \/ \E s \in Sessions : Session(s, XRTables)

SpecXR == InitXR /\ [][NextXR]_vars

\* Faculty membership
FacultyTables == {"faculty_members"}

NextFaculty == Tick \/ \E s \in Sessions : Session(s, FacultyTables)

SpecFaculty == Init /\ [][NextFaculty]_vars

\* User preferences
PreferencesTables == {"user_preferences"}

NextPreferences == Tick \/ \E s \in Sessions : Session(s, PreferencesTables)

SpecPreferences == Init /\ [][NextPreferences]_vars

-----------------------------------------------------------------------------
(* Every entity of the schema, created the way the tests create it *)

\* The keyword arguments of the constructors: the required columns alone, a course
\* and an enrollment with optional columns supplied as well, and a node whose
\* identifier the caller supplies.
EntityKwargs(s, t) ==
    CASE t = "portal_courses" ->
            {[course_spec_id |-> "spec1", title |-> "Default Test Course"],
             [course_spec_id |-> "spec1", title |-> "Test Course",
              description |-> "A test course for ScrollUniversity",
              level |-> "Intermediate", duration_weeks |-> 6, xp_reward |-> 150,
              scroll_coin_cost |-> 2500]}
      [] t = "portal_enrollments" ->
            {[user_id |-> "u1", portal_course_id |-> c] :
                c \in KnownIds(s, "portal_courses")}
                \cup {[user_id |-> "u2", portal_course_id |-> c,
                       progress_percentage |-> 2550, xp_earned |-> 50] :
                         c \in KnownIds(s, "portal_courses")}
      [] t = "ai_tutor_sessions" ->
            {[user_id |-> "u1", tutor_type |-> "ScrollMentorGPT"]}
      [] t = "scroll_nodes" ->
            {[name |-> "Test Node"], [node_id |-> 1, name |-> "Ghana Rural Node"]}
      [] t = "scholarships" -> {[name |-> "Test Scholarship"]}
      [] t = "scholarship_applications" ->
            {[scholarship_id |-> c, user_id |-> "u1"] :
                c \in KnownIds(s, "scholarships")}
      [] t = "xr_classrooms" ->
            {[portal_course_id |-> c, session_name |-> "Test XR Session",
              scheduled_time |-> MaxClock] : c \in KnownIds(s, "portal_courses")}
      [] t = "xr_classroom_participants" ->
            {[classroom_id |-> c, user_id |-> "u1"] :
                c \in KnownIds(s, "xr_classrooms")}
      [] t = "faculty_members" -> {[user_id |-> "u1", faculty_id |-> "f1"]}
      [] t = "user_preferences" -> {[user_id |-> "u1"]}
      [] t = "portal_analytics" ->
            {[user_id |-> "u1", event_type |-> "course_enrollment"]}

-----------------------------------------------------------------------------
(* Courses and enrollments that are updated after they were stored *)

SeedEnrollment ==
    NewRow("portal_enrollments", [user_id |-> "u1", portal_course_id |-> 1], 2, 1)

\* a store that holds a course and an enrollment in it
InitCatalogue ==
    /\ db = [t \in Tables |->
                CASE t = "portal_courses" -> {SeedCourse}
                  [] t = "portal_enrollments" -> {SeedEnrollment}
                  [] OTHER -> {}]
    /\ tx = [s \in Sessions |-> NoTransaction]
    /\ pending = [s \in Sessions |-> <<>>]
    /\ nextId = 3
    /\ clock = 1
    /\ made = 0
    /\ last = Idle
    /\ heap = Declared

CatalogueKwargs(t) ==
    CASE t = "portal_courses" ->
            {[course_spec_id |-> "spec1", duration_weeks |-> 6,
              level |-> "Intermediate", title |-> "Test Course", xp_reward |-> 150]}
      [] OTHER -> {}

\* The assignments to a stored course or enrollment: away from a default, back to
\* it, and to a column that has none.
CatalogueChanges(t) ==
    CASE t = "portal_courses" ->
            {[title |-> "Renamed Course"], [level |-> "Advanced"],
             [level |-> "Introductory"]}
      [] t = "portal_enrollments" ->
            {[status |-> "completed"], [progress_percentage |-> 5000]}
      [] OTHER -> {}

-----------------------------------------------------------------------------
(* Tutor sessions, nodes and scholarships with their JSON payloads *)

\* {"topic": "Python Programming"}
TopicData == JObject(<<<<"topic", JString("Python Programming")>>>>)

\* [{"role": "user", "content": "Hello"}, {"role": "ai", "content": "Hello! ..."}]
Conversation ==
    JArray(<<JObject(<<<<"role", JString("user")>>, <<"content", JString("Hello")>>>>),
             JObject(<<<<"role", JString("ai")>>,
                       <<"content", JString("Hello! How can I help you today?")>>>>)>>)

\* the session_data of test_json_field_functionality
SessionData ==
    JObject(<<<<"conversation_id", JString("conv_123")>>,
              <<"topics_discussed",
                JArray(<<JString("Python"), JString("AI"), JString("Machine Learning")>>)>>,
              <<"user_preferences",
                JObject(<<<<"language", JString("en")>>,
                          <<"difficulty", JString("intermediate")>>>>)>>>>)

\* a dict that holds a tuple: {"window": (1, 2), "closed": None}
WindowData ==
    JObject(<<<<"window", PyTuple(<<JNumber(1, 0), JNumber(2, 0)>>)>>,
              <<"closed", JNull>>>>)

\* {"solar_power": True, "satellite_internet": True}
SolarConfiguration ==
    JObject(<<<<"solar_power", JTrue>>, <<"satellite_internet", JTrue>>>>)

\* the configuration of test_complex_json_structure, one branch of each kind
ComplexConfiguration ==
    JObject(<<<<"hardware",
                JObject(<<<<"solar_panels",
                            JObject(<<<<"capacity", JString("5kW")>>,
                                      <<"efficiency", JNumber(85, -2)>>>>)>>,
                          <<"connectivity",
                            JObject(<<<<"primary", JString("satellite")>>,
                                      <<"mesh_enabled", JTrue>>>>)>>>>)>>,
              <<"software",
                JObject(<<<<"os", JString("Ubuntu 22.04")>>,
                          <<"services",
                            JArray(<<JString("nginx"), JString("postgresql"),
                                     JString("redis")>>)>>>>)>>,
              <<"location",
                JObject(<<<<"coordinates",
                            JObject(<<<<"lat", JNumber(66885, -4)>>,
                                      <<"lng", JNumber(-16244, -4)>>>>)>>,
                          <<"elevation", JNumber(250, 0)>>>>)>>>>)

\* {"min_gpa": 3.5, "min_courses": 3}
EligibilityCriteria ==
    JObject(<<<<"min_gpa", JNumber(35, -1)>>, <<"min_courses", JNumber(3, 0)>>>>)

PayloadTables == {"portal_courses", "ai_tutor_sessions", "scroll_nodes", "scholarships"}

\* The constructors of the tutor session, node and scholarship tests; a tutor
\* session is created without a course, with a course the session knows, and with
\* a course reference that names no stored course.
PayloadKwargs(s, t) ==
    CASE t = "portal_courses" ->
            {[course_spec_id |-> "spec1", title |-> "AI Programming Course"]}
      [] t = "ai_tutor_sessions" ->
            {[user_id |-> "u1", tutor_type |-> "ScrollMentorGPT",
              faculty_context |-> "Computer Science", session_data |-> TopicData,
              conversation_history |-> Conversation],
             [user_id |-> "u1", tutor_type |-> "ScrollMentorGPT",
              session_data |-> SessionData],
             [user_id |-> "u1", tutor_type |-> "GeneralAI",
              session_data |-> WindowData],
             [user_id |-> "u2", tutor_type |-> "ScrollMentorGPT"]}
                \cup {[user_id |-> "u1", portal_course_id |-> c,
                       tutor_type |-> "FacultyAI", satisfaction_rating |-> 5] :
                         c \in KnownIds(s, "portal_courses") \cup {DanglingId}}
      [] t = "scroll_nodes" ->
            {[name |-> "Ghana Rural Node", configuration |-> SolarConfiguration],
             [name |-> "Complex Config Node", configuration |-> ComplexConfiguration]}
      [] t = "scholarships" ->
            {[name |-> "ScrollCoin Merit Scholarship", amount |-> 100000,
              eligibility_criteria |-> EligibilityCriteria]}
      [] OTHER -> {}

-----------------------------------------------------------------------------
(* Parents with several children: courses, scholarships, classrooms, faculties *)

\* a store that holds two courses, a scholarship whose recipients have reached its
\* cap and one without a cap, and a classroom for one participant and one for 30
PairCourses ==
    {NewRow("portal_courses", [course_spec_id |-> "spec1", title |-> "Test Course"],
            id, 1) : id \in {1, 2}}

PairScholarships ==
    {NewRow("scholarships",
            [name |-> "Test Scholarship", max_recipients |-> 1,
             current_recipients |-> 1], 3, 1),
     NewRow("scholarships", [name |-> "Test Scholarship"], 4, 1)}

PairClassrooms ==
    {NewRow("xr_classrooms",
            [portal_course_id |-> 1, session_name |-> "Test XR Session",
             scheduled_time |-> 1, max_participants |-> 1], 5, 1),
     NewRow("xr_classrooms",
            [portal_course_id |-> 1, session_name |-> "Test XR Session",
             scheduled_time |-> 1], 6, 1)}

InitPairs ==
    /\ db = [t \in Tables |->
                CASE t = "portal_courses" -> PairCourses
                  [] t = "scholarships" -> PairScholarships
                  [] t = "xr_classrooms" -> PairClassrooms
                  [] OTHER -> {}]
    /\ tx = [s \in Sessions |-> NoTransaction]
    /\ pending = [s \in Sessions |-> <<>>]
    /\ nextId = 7
    /\ clock = 1
    /\ made = 0
    /\ last = Idle
    /\ heap = Declared

\* the tables with a UniqueConstraint over a pair of references
PairTables ==
    {"portal_enrollments", "scholarship_applications", "xr_classroom_participants",
     "faculty_members"}

\* the parent stored first
First(ids) == CHOOSE c \in ids : \A d \in ids : c <= d

\* The constructors of the children: one for user u1 and every stored parent, and
\* one for every user and the parent stored first.
PairsOf(ids) == {<<"u1", c>> : c \in ids} \cup {<<u, First(ids)>> : u \in Users}

PairKwargs(s, t) ==
    CASE t = "portal_enrollments" ->
            {[user_id |-> p[1], portal_course_id |-> p[2]] :
                p \in PairsOf(KnownIds(s, "portal_courses"))}
      [] t = "scholarship_applications" ->
            {[scholarship_id |-> p[2], user_id |-> p[1]] :
                p \in PairsOf(KnownIds(s, "scholarships"))}
      [] t = "xr_classroom_participants" ->
            {[classroom_id |-> p[2], user_id |-> p[1]] :
                p \in PairsOf(KnownIds(s, "xr_classrooms"))}
      [] t = "faculty_members" ->
            {[user_id |-> "u1", faculty_id |-> f] : f \in Faculties}
                \cup {[user_id |-> u, faculty_id |-> "f1"] : u \in Users}
      [] OTHER -> {}

-----------------------------------------------------------------------------
(* Tutor sessions that receive the default payloads *)

DefaultTables == {"ai_tutor_sessions"}

\* The constructors of test_ai_tutor_session_defaults and
\* test_ai_tutor_session_creation.
DefaultKwargs(t) ==
    CASE t = "ai_tutor_sessions" ->
            {[user_id |-> "u1", tutor_type |-> "FacultyAI"],
             [user_id |-> "u1", tutor_type |-> "ScrollMentorGPT",
              faculty_context |-> "Computer Science", session_data |-> TopicData,
              conversation_history |-> Conversation]}
      [] OTHER -> {}

\* obj.session_data = {...}, obj.conversation_history = [...]
DefaultChanges(t) ==
    CASE t = "ai_tutor_sessions" ->
            {[session_data |-> TopicData], [conversation_history |-> Conversation]}
      [] OTHER -> {}

\* d after d["topic"] = "Python Programming", or after d.append({...})
Put(d) ==
    IF d[1] = "object"
    THEN JObject(Append(d[2], <<"topic", JString("Python Programming")>>))
    ELSE JArray(Append(d[2], Conversation[2][1]))

-----------------------------------------------------------------------------
(* The five entities both schema modules declare, driven side by side *)

ParallelTables ==
    {"portal_courses", "portal_enrollments", "ai_tutor_sessions", "scroll_nodes",
     "scholarships"}

\* the session on the portal schema, and the session on the simplified schema
PortalSession == "s1"

SimpleSession == "s2"

\* The constructors of test_required_fields and test_default_values_consistency,
\* with fields both schemas declare; an enrollment names a stored course.
ParallelKwargs(t) ==
    CASE t = "portal_courses" ->
            {[course_spec_id |-> "spec1", title |-> "Test Course"],
             [course_spec_id |-> "spec1"]}
      [] t = "portal_enrollments" ->
            {[user_id |-> "u1", portal_course_id |-> c] :
                c \in KnownIds(PortalSession, "portal_courses")}
      [] t = "ai_tutor_sessions" ->
            {[user_id |-> "u1", tutor_type |-> "ScrollMentorGPT"]}
      [] t = "scroll_nodes" -> {[name |-> "Test Node"]}
      [] t = "scholarships" -> {[name |-> "Test Scholarship"]}
      [] OTHER -> {}

-----------------------------------------------------------------------------
(* The sessions of each scenario *)

\* The constructor calls of scenario k, and the assignments it makes to stored rows.
KwargsOf(k, s, t) ==
    CASE k = "entities" -> EntityKwargs(s, t)
      [] k = "catalogue" -> CatalogueKwargs(t)
      [] k = "payloads" -> PayloadKwargs(s, t)
      [] k = "pairs" -> PairKwargs(s, t)
      [] k = "defaults" -> DefaultKwargs(t)
      [] OTHER -> Kwargs(s, t)

ChangesOf(k, s, t) ==
    CASE k = "catalogue" -> CatalogueChanges(t)
      [] k = "defaults" -> DefaultChanges(t)
      [] OTHER -> Changes(s, t)

\* session.add(Model(**kw)) in scenario k
AddFrom(s, t, k) ==
    \E kw \in KwargsOf(k, s, t) :
        /\ made < MaxEntries
        /\ pending' = [pending EXCEPT
                          ![s] = Append(@, [kind |-> "insert", tbl |-> t,
                                            kw |-> Attributes(kw)])]
        /\ made' = made + 1
        /\ last' = Idle
        /\ UNCHANGED <<db, tx, nextId, clock, heap>>

\* obj.<column> = value in scenario k
ModifyFrom(s, t, k) ==
    \E id \in KnownIds(s, t), kw \in ChangesOf(k, s, t) :
        /\ made < MaxEntries
        /\ pending' = [pending EXCEPT
                          ![s] = Append(@, [kind |-> "update", tbl |-> t, id |-> id,
                                            kw |-> Attributes(kw)])]
        /\ made' = made + 1
        /\ last' = Idle
        /\ UNCHANGED <<db, tx, nextId, clock, heap>>

\* every entity of the schema
AddEntity(s) == \E t \in PortalTables : AddFrom(s, t, "entities")

\* one session at work, as in each test
OneSession == {"s1"}

NextEntities ==
    \/ Tick
    \/ \E s \in OneSession : AddEntity(s) \/ Flush(s) \/ Commit(s) \/ Rollback(s)

SpecEntities == Init /\ [][NextEntities]_vars

\* a course and an enrollment that are updated
AddCourse(s) == AddFrom(s, "portal_courses", "catalogue")

ModifyCatalogue(s) ==
    \E t \in EnrollmentTables : ModifyFrom(s, t, "catalogue")

NextCatalogue ==
    \/ Tick
    \/ \E s \in Sessions :
          AddCourse(s) \/ ModifyCatalogue(s) \/ Flush(s) \/ Commit(s) \/ Rollback(s)

SpecCatalogue == InitCatalogue /\ [][NextCatalogue]_vars

\* tutor sessions, nodes and scholarships
AddPayload(s) == \E t \in PayloadTables : AddFrom(s, t, "payloads")

NextPayloads ==
    \/ Tick
    \/ \E s \in OneSession : AddPayload(s) \/ Flush(s) \/ Commit(s) \/ Rollback(s)

SpecPayloads == Init /\ [][NextPayloads]_vars

\* parents and the rows that refer to them
ReferenceTables ==
    {"portal_courses", "portal_enrollments", "scholarships",
     "scholarship_applications", "xr_classrooms", "xr_classroom_participants"}

AddReference(s) == \E t \in ReferenceTables : AddFrom(s, t, "schema")

NextReferences ==
    \/ Tick
    \/ \E s \in OneSession : AddReference(s) \/ Flush(s) \/ Commit(s) \/ Rollback(s)

\* from a store that holds a course and a classroom in it
SpecReferences == InitXR /\ [][NextReferences]_vars

\* children of the stored parents
AddPair(s) == \E t \in PairTables : AddFrom(s, t, "pairs")

NextPairs ==
    \/ \E s \in OneSession : AddPair(s) \/ Flush(s) \/ Commit(s) \/ Rollback(s)

SpecPairs == InitPairs /\ [][NextPairs]_vars

\* obj.session_data[key] = value, obj.conversation_history.append(item): a change
\* made in place to the payload of a flushed instance.  The attribute is the
\* Column's default object, so the change is made to that object; a JSON column
\* without MutableDict tracks no change in place, so no UPDATE follows.
Mutate(s) ==
    \E ref \in heap.refs :
        /\ ref[1] = s
        /\ Len(heap.arg[<<ref[2], ref[4]>>][2]) < MaxItems
        /\ heap' = [heap EXCEPT !.arg[<<ref[2], ref[4]>>] = Put(@)]
        /\ last' = Idle
        /\ UNCHANGED <<db, tx, pending, nextId, clock, made>>

\* tutor sessions created with and without payloads, and changed afterwards
AddDefault(s) == \E t \in DefaultTables : AddFrom(s, t, "defaults")

ModifyDefault(s) == \E t \in DefaultTables : ModifyFrom(s, t, "defaults")

NextDefaults ==
    \E s \in Sessions :
        \/ AddDefault(s)
        \/ ModifyDefault(s)
        \/ Mutate(s)
        \/ Flush(s)
        \/ Commit(s)
        \/ Rollback(s)

SpecDefaults == Init /\ [][NextDefaults]_vars

\* the same constructor call in both test modules: Model(**kw) added to the
\* session on the portal schema, TestModel(**kw) to the session on the simplified
\* schema
AddBoth(t) ==
    \E kw \in ParallelKwargs(t) :
        /\ made < MaxEntries
        /\ Len(pending[PortalSession]) = Len(pending[SimpleSession])
        /\ pending' =
              [pending EXCEPT
                  ![PortalSession] =
                      Append(@, [kind |-> "insert", tbl |-> t, kw |-> Attributes(kw)]),
                  ![SimpleSession] =
                      Append(@, [kind |-> "insert", tbl |-> Simplified(t),
                                 kw |-> Attributes(kw)])]
        /\ made' = made + 1
        /\ last' = Idle
        /\ UNCHANGED <<db, tx, nextId, clock, heap>>

\* db_session.commit() in the test on the portal schema, then in its twin on the
\* simplified schema
CommitPortal ==
    /\ Len(pending[PortalSession]) = Len(pending[SimpleSession])
    /\ Commit(PortalSession)

CommitSimple ==
    /\ pending[PortalSession] = <<>>
    /\ pending[SimpleSession] # <<>>
    /\ Commit(SimpleSession)

NextParallel ==
    \/ \E t \in ParallelTables : AddBoth(t)
    \/ CommitPortal
    \/ CommitSimple

SpecParallel == Init /\ [][NextParallel]_vars

-----------------------------------------------------------------------------
(* Enrollments: claims C1, C2, C7, C8, C9, C10, checked under Spec *)

\* The step is a flush() or commit() of session s that reached the store.
Flushes(s) ==
    /\ last'.sess = s
    /\ last'.op \in {"flush", "commit"}
    /\ pending[s] # <<>>
    /\ pending'[s] = <<>>

Commits(s) ==
    /\ last'.sess = s
    /\ last'.op = "commit"
    /\ pending'[s] = <<>>
    /\ tx'[s] = NoTransaction
    /\ pending[s] # <<>> \/ tx[s] # NoTransaction

\* Session s has changed no stored row of table t in its unit of work.
Untouched(s, t) ==
    /\ tx[s].upd[t] = {}
    /\ \A i \in DOMAIN pending[s] :
          pending[s][i].kind = "update" => pending[s][i].tbl # t

\* Entry e inserts into table t a row that agrees with row x on the columns cols.
InsertsSame(e, t, cols, x) ==
    /\ e.kind = "insert"
    /\ e.tbl = t
    /\ \A c \in cols : c \in DOMAIN e.kw /\ c \in DOMAIN x /\ e.kw[c] = x[c]

\* Table t holds at most one committed row for each value of the columns cols.
AtMostOne(t, cols) ==
    \A x \in db[t], y \in db[t] : (\A c \in cols : x[c] = y[c]) => x = y

\* The last call was refused for a row of table t that agrees on cols with a
\* committed row other than itself.
RefusedDuplicate(t, cols) ==
    /\ last.error = "UniqueViolation"
    /\ last.failed.tbl = t
    /\ \E x \in db[t] :
          /\ x[PrimaryKey(t)] # last.failed.row[PrimaryKey(t)]
          /\ \A c \in cols : x[c] = last.failed.row[c]

\* A flush or commit of a session that rewrites no row of t and inserts a row
\* agreeing on cols with a committed row of t raises IntegrityError and commits
\* nothing; the refusal is the uniqueness violation when the insertion is all the
\* session holds.
DuplicateInsertRefused(t, cols) ==
    \A s \in Sessions :
        (/\ Flushes(s)
         /\ Untouched(s, t)
         /\ \E i \in DOMAIN pending[s], x \in db[t] :
               InsertsSame(pending[s][i], t, cols, x))
        => /\ last'.result = "IntegrityError"
           /\ db' = db
           /\ (Units(s) = 1 => last'.error = "UniqueViolation")

\* A commit of a session whose unit of work is one insertion into t, naming an
\* existing row of the parent table and a pair no row it can see has, returns and
\* the row is committed.
FirstInsertAccepted(t, cols, parentCol, parent) ==
    \A s \in Sessions :
        (/\ Commits(s)
         /\ Units(s) = 1
         /\ Len(pending[s]) = 1
         /\ pending[s][1].kind = "insert"
         /\ pending[s][1].tbl = t
         /\ pending[s][1].kw[parentCol] \in KnownIds(s, parent)
         /\ \A x \in Visible(tx[s], t) : \E c \in cols : x[c] # pending[s][1].kw[c])
        => /\ last'.result = "ok"
           /\ \E y \in db'[t] \ db[t] : \A c \in cols : y[c] = pending[s][1].kw[c]

EnrollmentKey == {"user_id", "portal_course_id"}

C2_DuplicateEnrollmentFails ==
    [][DuplicateInsertRefused("portal_enrollments", EnrollmentKey)]_vars

\* C2 witness: a commit holding only the second enrollment was refused as a
\* duplicate of a committed one.
C2_Witness ==
    /\ RefusedDuplicate("portal_enrollments", EnrollmentKey)
    /\ last.op = "commit"
    /\ last.units = 1

\* C7: a uniqueness violation reaches the caller as the IntegrityError and nothing
\* recovers from it: the store after the refused call is the store before it, row
\* for row and field for field, and the session keeps neither the refused entry
\* nor an open transaction that could write it again.
C7_ViolationLeavesStoreUnchanged ==
    [][\A s \in Sessions :
          (Flushes(s) /\ last'.error = "UniqueViolation")
          => /\ last'.result = "IntegrityError"
             /\ db' = db
             /\ pending'[s] = <<>>
             /\ tx'[s] = NoTransaction]_vars

\* C7 witness: a flush was refused for a duplicate of a committed enrollment.
C7_Witness ==
    /\ RefusedDuplicate("portal_enrollments", EnrollmentKey)
    /\ last.op = "flush"
    /\ pending[last.sess] = <<>>

\* The rows of table t that are live: committed and not rewritten by an open
\* transaction, or written by one.
Live(t) ==
    {x \in db[t] : \A o \in Sessions : \A y \in tx[o].upd[t] :
                      y[PrimaryKey(t)] # x[PrimaryKey(t)]}
        \cup UNION {tx[o].ins[t] \cup tx[o].upd[t] : o \in Sessions}

NoTwoLive(t, cols) ==
    \A x \in Live(t), y \in Live(t) :
        x[PrimaryKey(t)] # y[PrimaryKey(t)] => \E c \in cols : x[c] # y[c]

\* Session o holds, not yet flushed, an insertion with the pair of row x.
Races(o, x) ==
    /\ Untouched(o, "portal_enrollments")
    /\ \E i \in DOMAIN pending[o] :
          InsertsSame(pending[o][i], "portal_enrollments", EnrollmentKey, x)

\* C8: two writers racing on one (user, course) pair never both have the row
\* written, committed or not; once one of them commits, the other's flush is
\* refused with a constraint violation (the uniqueness violation when the
\* insertion is all it holds), and a refused writer is left with nothing to retry.
C8_RaceLoserFails ==
    /\ []NoTwoLive("portal_enrollments", EnrollmentKey)
    /\ [][\A s \in Sessions : \A o \in Sessions \ {s} :
             /\ (/\ Commits(s)
                 /\ last'.result = "ok"
                 /\ \E x \in db'["portal_enrollments"] \ db["portal_enrollments"] :
                       Races(o, x))
                => /\ Flushed(o)'.status \notin {"ok", "block"}
                   /\ Units(o) = 1 => Flushed(o)'.status = "UniqueViolation"
             /\ (Flushes(o) /\ last'.result = "IntegrityError")
                => pending'[o] = <<>> /\ tx'[o] = NoTransaction /\ db' = db]_vars

\* C8 witness: one session has written an enrollment in its open transaction
\* while the other holds an insertion for the same pair.
C8_Witness ==
    \E s \in Sessions : \E o \in Sessions \ {s} :
        \E x \in tx[s].ins["portal_enrollments"] : Races(o, x)

\* C9: a flush or commit that inserts a course without a title raises the
\* IntegrityError of a NOT NULL violation and the stored rows are the ones stored
\* before.
C9_MissingTitleFails ==
    [][\A s \in Sessions :
          (/\ Flushes(s)
           /\ \E i \in DOMAIN pending[s] :
                 /\ pending[s][i].kind = "insert"
                 /\ pending[s][i].tbl = "portal_courses"
                 /\ "title" \notin DOMAIN pending[s][i].kw)
          => /\ last'.result = "IntegrityError"
             /\ last'.error = "NotNullViolation"
             /\ db' = db]_vars

\* C9 witness: a commit was refused for a course row without a title.
C9_Witness ==
    /\ last.op = "commit"
    /\ last.error = "NotNullViolation"
    /\ last.failed.tbl = "portal_courses"
    /\ "title" \notin DOMAIN last.failed.row

PendingInserts(s, t) ==
    Cardinality({i \in DOMAIN pending[s] :
                    pending[s][i].kind = "insert" /\ pending[s][i].tbl = t})

\* C10: a commit is all or nothing over the rows of its unit of work, flushed
\* earlier or still pending: when it returns, every inserted row and every
\* rewritten row is committed; when it raises, the store is unchanged.
C10_CommitAtomic ==
    [][\A s \in Sessions :
          Commits(s)
          => IF last'.result = "ok"
             THEN \A t \in Tables :
                    /\ Cardinality(db'[t])
                         = Cardinality(db[t]) + Cardinality(tx[s].ins[t])
                             + PendingInserts(s, t)
                    /\ \A x \in tx[s].ins[t] \cup tx[s].upd[t] :
                          \E y \in db'[t] : y[PrimaryKey(t)] = x[PrimaryKey(t)]
                    /\ pending[s] = <<>> => tx[s].ins[t] \cup tx[s].upd[t] \subseteq db'[t]
             ELSE db' = db]_vars

\* C10 witness: a commit over a flushed row and a further entry was refused.
C10_Witness ==
    /\ last.op = "commit"
    /\ last.result = "IntegrityError"
    /\ last.units >= 2
    /\ \E x \in db["portal_courses"] : TRUE

-----------------------------------------------------------------------------
(* Scholarship applications: claim C3, checked under SpecScholarship *)

ApplicationKey == {"scholarship_id", "user_id"}

\* C3: creating an application for the same (scholarship, user) twice: the commit
\* of the first returns with the row stored, the commit of the second raises, and
\* the store never holds two applications for one (scholarship, user).
C3_ApplicationTwice ==
    /\ []AtMostOne("scholarship_applications", ApplicationKey)
    /\ [][/\ FirstInsertAccepted("scholarship_applications", ApplicationKey,
                                 "scholarship_id", "scholarships")
          /\ DuplicateInsertRefused("scholarship_applications", ApplicationKey)]_vars

\* C3 witness: the commit of a second application for a stored (scholarship, user)
\* was refused.
C3_Witness ==
    /\ RefusedDuplicate("scholarship_applications", ApplicationKey)
    /\ last.op = "commit"
    /\ last.units = 1

-----------------------------------------------------------------------------
(* XR classroom participants: claim C4, checked under SpecXR *)

ParticipantKey == {"classroom_id", "user_id"}

\* C4: the store never holds two participation rows for one (classroom, user),
\* and inserting a second row for a stored pair is refused.
C4_OneParticipantPerClassroomUser ==
    /\ []AtMostOne("xr_classroom_participants", ParticipantKey)
    /\ [][DuplicateInsertRefused("xr_classroom_participants", ParticipantKey)]_vars

\* C4 witness: a second participant row for a stored (classroom, user) was refused.
C4_Witness == RefusedDuplicate("xr_classroom_participants", ParticipantKey)

-----------------------------------------------------------------------------
(* Faculty members: claim C5, checked under SpecFaculty *)

MemberKey == {"user_id", "faculty_id"}

\* C5: the store never holds two faculty-membership rows for one (user, faculty),
\* and inserting a second row for a stored pair is refused.
C5_OneMembershipPerUserFaculty ==
    /\ []AtMostOne("faculty_members", MemberKey)
    /\ [][DuplicateInsertRefused("faculty_members", MemberKey)]_vars

\* C5 witness: a second membership row for a stored (user, faculty) was refused.
C5_Witness == RefusedDuplicate("faculty_members", MemberKey)

-----------------------------------------------------------------------------
(* User preferences: claim C6, checked under SpecPreferences *)

PreferencesKey == {"user_id"}

\* C6: the store never holds two preferences rows for one user, and inserting a
\* second preferences row for a user who has one is refused.
C6_OnePreferencesPerUser ==
    /\ []AtMostOne("user_preferences", PreferencesKey)
    /\ [][DuplicateInsertRefused("user_preferences", PreferencesKey)]_vars

\* C6 witness: a second preferences row for a user who has one was refused.
C6_Witness == RefusedDuplicate("user_preferences", PreferencesKey)

-----------------------------------------------------------------------------
(* Column defaults: claims C11, C13, checked under SpecEntities *)

\* The rows of table t that session s reads after the step and did not before.
Stored(s, t) == Visible(tx[s], t)' \ Visible(tx[s], t)

\* Entry e inserts a row into table t.
InsertsInto(e, t) == e.kind = "insert" /\ e.tbl = t

\* Row y holds every supplied value of the insertion e.
AsSupplied(e, y) == \A c \in DOMAIN e.kw : c \in DOMAIN y /\ y[c] = e.kw[c]

\* Row y holds the declared default in every defaulted column e does not supply.
Defaulted(e, y) ==
    \A c \in DOMAIN Defaults(e.tbl) \ DOMAIN e.kw :
        c \in DOMAIN y /\ y[c] = Defaults(e.tbl)[c]

\* C11: a flush or commit that returns has stored, for every insertion of every
\* entity, a row whose defaulted columns the caller left out hold the declared
\* defaults; a course inserted with course_spec_id and title alone reads back with
\* level "Introductory", duration_weeks 4, xp_reward 100, scroll_coin_cost 0.00,
\* featured false, enrollment_open true, enrollment_count 0 and rating 0.00.
C11_DefaultsOnInsert ==
    [][\A s \in Sessions :
          (Flushes(s) /\ last'.result = "ok")
          => \A i \in DOMAIN pending[s], t \in Tables :
                LET e == pending[s][i] IN
                InsertsInto(e, t)
                => \E y \in Stored(s, t) :
                      /\ AsSupplied(e, y)
                      /\ Defaulted(e, y)
                      /\ (e.tbl = "portal_courses"
                             /\ DOMAIN e.kw = {"course_spec_id", "title"})
                         => /\ y.level = "Introductory"
                            /\ y.duration_weeks = 4
                            /\ y.xp_reward = 100
                            /\ y.scroll_coin_cost = 0
                            /\ y.featured = FALSE
                            /\ y.enrollment_open = TRUE
                            /\ y.enrollment_count = 0
                            /\ y.rating = 0]_vars

\* C11 witness: a commit has stored a course created from course_spec_id and title
\* alone, and an analytics event created from its required columns alone.
C11_Witness ==
    /\ last.op = "commit"
    /\ last.result = "ok"
    /\ \E x \in db["portal_courses"] :
          "description" \notin DOMAIN x /\ x.level = "Introductory"
    /\ \E x \in db["portal_analytics"] : x.event_data = EmptyObject

\* C13: a flush or commit that returns has stored every supplied value as supplied:
\* a course inserted with level "Intermediate", duration_weeks 6 and xp_reward 150
\* reads back with them, and an enrollment inserted with progress and xp reads back
\* with them and with the default status "active".
C13_SuppliedValuesKept ==
    [][\A s \in Sessions :
          (Flushes(s) /\ last'.result = "ok")
          => \A i \in DOMAIN pending[s], t \in Tables :
                LET e == pending[s][i] IN
                InsertsInto(e, t)
                => \E y \in Stored(s, t) :
                      /\ AsSupplied(e, y)
                      /\ (e.tbl = "portal_courses" /\ "level" \in DOMAIN e.kw)
                         => /\ y.level = "Intermediate"
                            /\ y.duration_weeks = 6
                            /\ y.xp_reward = 150
                            /\ y.featured = FALSE
                      /\ (e.tbl = "portal_enrollments"
                             /\ "progress_percentage" \in DOMAIN e.kw)
                         => /\ y.progress_percentage = 2550
                            /\ y.xp_earned = 50
                            /\ y.status = "active"]_vars

\* C13 witness: a commit has stored the course created with level "Intermediate"
\* and an enrollment created with progress and xp.
C13_Witness ==
    /\ last.op = "commit"
    /\ last.result = "ok"
    /\ \E x \in db["portal_courses"] : x.level = "Intermediate"
    /\ \E x \in db["portal_enrollments"] :
          x.progress_percentage = 2550 /\ x.status = "active"

-----------------------------------------------------------------------------
(* Updates of stored rows: claims C12, C16, checked under SpecCatalogue *)

\* Session s holds, not yet flushed, the assignment of v to column c of the row
\* id of table t.
Assigns(s, t, id, c, v) ==
    \E i \in DOMAIN pending[s] :
        LET e == pending[s][i] IN
        /\ e.kind = "update"
        /\ e.tbl = t
        /\ e.id = id
        /\ c \in DOMAIN e.kw
        /\ e.kw[c] = v

\* Some session's commit returns in this step.
SomeCommit == \E s \in Sessions : Commits(s) /\ last'.result = "ok"

\* C12: an update never puts a declared default in place of a stored value.  In a
\* flush or commit that returns, every row the session read before is read after
\* with each defaulted column holding the value it held or the value the session
\* assigned to it; a commit of work flushed earlier commits the rows as the session
\* read them; and no other step changes a stored row.
C12_DefaultsOnInsertOnly ==
    [][/\ \A s \in Sessions, t \in Tables :
             /\ (Flushes(s) /\ last'.result = "ok")
                => \A x \in Visible(tx[s], t) :
                      \E y \in Visible(tx[s], t)' :
                         /\ y[PrimaryKey(t)] = x[PrimaryKey(t)]
                         /\ \A c \in DOMAIN Defaults(t) :
                               \/ y[c] = x[c]
                               \/ Assigns(s, t, x[PrimaryKey(t)], c, y[c])
             /\ (Commits(s) /\ pending[s] = <<>>) => db'[t] = Visible(tx[s], t)
       /\ ~SomeCommit => db' = db]_vars

\* C12 witness: a course inserted with a level that is not the default was renamed
\* by a later update and still has its level.
C12_Witness ==
    /\ last.op = "commit"
    /\ last.result = "ok"
    /\ \E x \in db["portal_courses"] :
          /\ x.level = "Intermediate"
          /\ x.level # Defaults("portal_courses").level
          /\ x.title = "Renamed Course"

\* Row y is row x at a later time: the same identifier and the same creation time.
SameRow(t, x, y) ==
    /\ y[PrimaryKey(t)] = x[PrimaryKey(t)]
    /\ y.created_at = x.created_at

Identified(t, rows) ==
    /\ \A x \in rows : PrimaryKey(t) \in DOMAIN x
    /\ \A x, y \in rows : x[PrimaryKey(t)] = y[PrimaryKey(t)] => x = y

\* C15: in every reachable state every row of every entity, committed or written
\* by an open transaction, has a non-null identifier, whether or not the caller
\* supplied one, and no two rows of the same entity have the same identifier.
C15_IdentifiersUnique ==
    \A t \in Tables :
        /\ Identified(t, db[t])
        /\ \A s \in Sessions : Identified(t, Visible(tx[s], t))

\* Two nodes are committed, one with the identifier its caller supplied and one
\* with a generated identifier, beside a course whose caller supplied none.
C15_Witness ==
    /\ \E x, y \in db["scroll_nodes"] :
          /\ x.name = "Ghana Rural Node" /\ x.node_id = 1
          /\ y.name = "Test Node" /\ y.node_id # 1
    /\ db["portal_courses"] # {}


\* ---------------------------------------------------------------------------
\* JSON payloads and the optional course of a tutor session: claims C14, C20,
\* checked under SpecPayloads
\* ---------------------------------------------------------------------------

\* Row y reads back every supplied value of the insertion e: a JSON payload built
\* from objects, arrays and scalars equal to the one written, member by member in
\* every nested object and array, and every other column as supplied.
ReadsBack(e, y) ==
    \A c \in DOMAIN e.kw :
        (c \in JsonColumns(e.tbl) => IsJson(e.kw[c]))
        => c \in DOMAIN y /\ y[c] = e.kw[c]

\* d[key] of the object d
Member(d, key) ==
    LET i == CHOOSE i \in DOMAIN d[2] : d[2][i][1] = key IN d[2][i][2]

\* C14: a flush or commit that returns has stored, for every insertion of a tutor
\* session, node or scholarship, a row that a query reads back with a payload
\* equal to the one written, for every payload built from nested objects, arrays
\* and scalars.
C14_PayloadRoundTrip ==
    [][\A s \in Sessions :
          (Flushes(s) /\ last'.result = "ok")
          => \A i \in DOMAIN pending[s], t \in PayloadTables :
                InsertsInto(pending[s][i], t)
                => \E y \in Stored(s, t) : ReadsBack(pending[s][i], y)]_vars

\* C14 witness: a commit has stored the node with the nested configuration and a
\* tutor session with its session_data and two-turn conversation_history, and the
\* rows read back with those payloads.
C14_Witness ==
    /\ last.op = "commit"
    /\ last.result = "ok"
    /\ \E x \in db["scroll_nodes"] :
          /\ x.configuration = ComplexConfiguration
          /\ Member(Member(Member(x.configuration, "hardware"), "connectivity"),
                    "mesh_enabled") = JTrue
    /\ \E x \in db["ai_tutor_sessions"] :
          /\ x.session_data = TopicData
          /\ Len(x.conversation_history[2]) = 2

\* C20: a flush or commit whose unit of work is tutor sessions created with
\* user_id and tutor_type and no portal_course_id succeeds; and every flush or
\* commit that returns has stored each such session with a null course reference,
\* and each session created with a course reference with exactly the identifier of
\* that course, which is a course the session reads.
C20_TutorCourseOptional ==
    [][\A s \in Sessions :
          Flushes(s)
          => /\ (\A i \in DOMAIN pending[s] :
                    /\ InsertsInto(pending[s][i], "ai_tutor_sessions")
                    /\ "portal_course_id" \notin DOMAIN pending[s][i].kw)
                => last'.result = "ok"
             /\ last'.result = "ok"
                => \A i \in DOMAIN pending[s] :
                      LET e == pending[s][i] IN
                      InsertsInto(e, "ai_tutor_sessions")
                      => \E y \in Stored(s, "ai_tutor_sessions") :
                            /\ y.user_id = e.kw.user_id
                            /\ y.tutor_type = e.kw.tutor_type
                            /\ "portal_course_id" \in DOMAIN y
                                  <=> "portal_course_id" \in DOMAIN e.kw
                            /\ "portal_course_id" \in DOMAIN e.kw
                               => /\ y.portal_course_id = e.kw.portal_course_id
                                  /\ \E c \in Visible(tx[s], "portal_courses")' :
                                        c.portal_course_id = y.portal_course_id]_vars

\* C20 witness: a commit has stored a tutor session without a course and a tutor
\* session that refers to a stored course.
C20_Witness ==
    /\ last.op = "commit"
    /\ last.result = "ok"
    /\ \E x \in db["ai_tutor_sessions"] :
          "portal_course_id" \notin DOMAIN x /\ x.tutor_type = "ScrollMentorGPT"
    /\ \E x \in db["ai_tutor_sessions"], c \in db["portal_courses"] :
          /\ "portal_course_id" \in DOMAIN x
          /\ x.portal_course_id = c.portal_course_id
          /\ x.satisfaction_rating = 5


\* ---------------------------------------------------------------------------
\* Referential integrity: claim C19, checked under SpecReferences
\* ---------------------------------------------------------------------------

\* every row of `children` names a row of `parents`
Refers(t, children, parents) ==
    \A x \in children :
        /\ ParentColumn(t) \in DOMAIN x
        /\ \E p \in parents : p[PrimaryKey(ParentTable(t))] = x[ParentColumn(t)]

\* Entry e of session s inserts a child whose parent reference names no row the
\* session reads and no row its unit of work is about to insert.
NoSuchParent(s, e) ==
    /\ e.kind = "insert"
    /\ e.tbl \in ChildTables
    /\ e.kw[ParentColumn(e.tbl)] \notin KnownIds(s, ParentTable(e.tbl))
    /\ e.kw[ParentColumn(e.tbl)] \notin nextId .. (nextId + Len(pending[s]) - 1)

Stamped(x) ==
    /\ "created_at" \in DOMAIN x
    /\ "updated_at" \in DOMAIN x => x.updated_at >= x.created_at

\* The step moves the last update of no committed row of table t back in time.
NeverEarlier(t) ==
    \A x \in db[t], y \in db'[t] :
        (SameRow(t, x, y) /\ "updated_at" \in DOMAIN x)
        => "updated_at" \in DOMAIN y /\ y.updated_at >= x.updated_at

\* C17: every row of every entity, committed or written by an open transaction,
\* has a non-null created_at and an updated_at that is not earlier than it, and no
\* step makes the updated_at of a committed row earlier than it was. (The time of
\* an insertion or update is the server's now().)
C17_TimestampsMonotone ==
    /\ [](\A t \in Tables :
            /\ \A x \in db[t] : Stamped(x)
            /\ \A s \in Sessions : \A x \in Visible(tx[s], t) : Stamped(x))
    /\ [][\A t \in Tables : NeverEarlier(t)]_vars


-----------------------------------------------------------------------------
(* Analytics events: claim C18, checked under SpecEntities *)

-----------------------------------------------------------------------------
(* Several children of one parent: claim C21, checked under SpecPairs *)

PairKey(t) ==
    CASE t = "portal_enrollments" -> EnrollmentKey
      [] t = "scholarship_applications" -> ApplicationKey
      [] t = "xr_classroom_participants" -> ParticipantKey
      [] t = "faculty_members" -> MemberKey

\* Entry i of session s inserts, into a table with a pair constraint, a row that
\* names stored parents and whose pair no row the session reads has, nor any other
\* entry of the unit of work.
FreshPair(s, i) ==
    LET e == pending[s][i] IN
    /\ e.kind = "insert"
    /\ e.tbl \in PairTables
    /\ ForeignKeyOk(tx[s], e.tbl, e.kw)
    /\ \A x \in Visible(tx[s], e.tbl) : \E c \in PairKey(e.tbl) : x[c] # e.kw[c]
    /\ \A j \in DOMAIN pending[s] \ {i} :
          pending[s][j].tbl = e.tbl
          => \E c \in PairKey(e.tbl) : pending[s][j].kw[c] # e.kw[c]

\* C21: the uniqueness constraints restrict the full pair only.  A flush or commit
\* whose insertions of enrollments, applications, participants and faculty members
\* each carry a pair that no stored row of the table has (both columns equal)
\* returns and stores every one of them, however many stored rows share the user
\* alone or the course, scholarship, classroom or faculty alone.
C21_PairOnly ==
    [][\A s \in Sessions :
          (Flushes(s) /\ \A i \in DOMAIN pending[s] : FreshPair(s, i))
          => /\ last'.result = "ok"
             /\ \A i \in DOMAIN pending[s], t \in PairTables :
                   InsertsInto(pending[s][i], t)
                   => \E y \in Stored(s, t) : AsSupplied(pending[s][i], y)]_vars

\* C21 witness: one user is enrolled in two courses and one course has enrollments
\* of two users, the last of them committed beside the other two.
C21_Witness ==
    /\ last.op = "commit"
    /\ last.result = "ok"
    /\ last.units = 1
    /\ \E x, y, z \in db["portal_enrollments"] :
          /\ x.user_id = "u1" /\ x.portal_course_id = 1
          /\ y.user_id = "u1" /\ y.portal_course_id = 2
          /\ z.user_id = "u2" /\ z.portal_course_id = 1

-----------------------------------------------------------------------------
(* The counters of a parent: claim C22, checked under SpecPairs *)

CounterTables == {"portal_courses", "scholarships", "xr_classrooms"}

\* the counter each row of `rows` holds, by identifier
Counters(p, rows) == {<<x[PrimaryKey(p)], x[CounterColumn(p)]>> : x \in rows}

\* the rows of table t among `rows` that name the parent with identifier id
ChildrenOf(t, rows, id) ==
    {x \in rows : ParentColumn(t) \in DOMAIN x /\ x[ParentColumn(t)] = id}

\* Entry e of session s inserts a child of a parent that declares a cap which its
\* counter or the number of its stored children has reached.
AtCap(s, e) ==
    /\ e.kind = "insert"
    /\ e.tbl \in {"scholarship_applications", "xr_classroom_participants"}
    /\ \E x \in Visible(tx[s], ParentTable(e.tbl)) :
          /\ x[PrimaryKey(ParentTable(e.tbl))] = e.kw[ParentColumn(e.tbl)]
          /\ CapColumn(ParentTable(e.tbl)) \in DOMAIN x
          /\ \/ x[CounterColumn(ParentTable(e.tbl))] >= x[CapColumn(ParentTable(e.tbl))]
             \/ Cardinality(ChildrenOf(e.tbl, Visible(tx[s], e.tbl),
                                       x[PrimaryKey(ParentTable(e.tbl))]))
                   >= x[CapColumn(ParentTable(e.tbl))]

\* C22: no step changes the enrollment_count of a course, the current_recipients
\* of a scholarship or the current_participants of a classroom, neither among the
\* committed rows nor among the rows a session reads, whatever enrollments,
\* applications and participants it inserts; and a flush or commit that inserts a
\* child with a fresh pair returns and stores it also when the parent's cap
\* (max_recipients, max_participants) is reached.
C22_CountersUntouched ==
    [][/\ \A p \in CounterTables :
             /\ Counters(p, db[p])' = Counters(p, db[p])
             /\ \A s \in Sessions :
                   Counters(p, Visible(tx[s], p))' = Counters(p, Visible(tx[s], p))
       /\ \A s \in Sessions :
             (/\ Flushes(s)
              /\ \A i \in DOMAIN pending[s] : FreshPair(s, i)
              /\ \E i \in DOMAIN pending[s] : AtCap(s, pending[s][i]))
             => /\ last'.result = "ok"
                /\ \A i \in DOMAIN pending[s], t \in CountedTables :
                      (InsertsInto(pending[s][i], t) /\ AtCap(s, pending[s][i]))
                      => \E y \in Stored(s, t) : AsSupplied(pending[s][i], y)]_vars

\* the committed children of the parent id outnumber the count and the cap it holds
Outgrown(t, id) ==
    \E x \in db[ParentTable(t)] :
        /\ x[PrimaryKey(ParentTable(t))] = id
        /\ Cardinality(ChildrenOf(t, db[t], id)) > x[CounterColumn(ParentTable(t))]
        /\ (ParentTable(t) # "portal_courses" /\ CapColumn(ParentTable(t)) \in DOMAIN x)
           => Cardinality(ChildrenOf(t, db[t], id)) > x[CapColumn(ParentTable(t))]

\* C22 witness: a commit has stored a second application for the scholarship
\* whose max_recipients is 1 and an enrollment in a course, and the scholarship
\* still counts 1 recipient and the course 0 enrollments.
C22_Witness ==
    /\ last.op = "commit"
    /\ last.result = "ok"
    /\ Cardinality(ChildrenOf("scholarship_applications",
                               db["scholarship_applications"], 3)) = 2
    /\ Outgrown("scholarship_applications", 3)
    /\ Outgrown("portal_enrollments", 1)
    /\ \E x \in db["scholarships"] :
          x.scholarship_id = 3 /\ x.max_recipients = 1 /\ x.current_recipients = 1
    /\ \E x \in db["portal_courses"] :
          x.portal_course_id = 1 /\ x.enrollment_count = 0

-----------------------------------------------------------------------------
(* Default payloads: claim C23, checked under SpecDefaults *)

\* C23: a flush or commit that returns has stored every tutor session created
\* without session_data with the empty object, and every one created without
\* conversation_history with the empty list, whatever payloads other rows were
\* inserted with and whatever changes were made to the payload of another row
\* that received the default.
C23_DefaultPayloadsIndependent ==
    [][\A s \in Sessions :
          (Flushes(s) /\ last'.result = "ok")
          => \A i \in DOMAIN pending[s] :
                LET e == pending[s][i] IN
                InsertsInto(e, "ai_tutor_sessions")
                => \E y \in Stored(s, "ai_tutor_sessions") :
                      /\ AsSupplied(e, y)
                      /\ "session_data" \notin DOMAIN e.kw
                         => y.session_data = EmptyObject
                      /\ "conversation_history" \notin DOMAIN e.kw
                         => y.conversation_history = EmptyArray]_vars

-----------------------------------------------------------------------------
(* The two schema modules: claim C24, checked under SpecParallel *)

\* the columns of table t that both modules declare, identifiers and timestamps
\* apart
SharedColumns(t) ==
    CASE t = "portal_courses" ->
            {"course_spec_id", "title", "description", "level", "duration_weeks",
             "xp_reward", "scroll_coin_cost", "featured", "enrollment_open",
             "enrollment_count", "rating"}
      [] t = "portal_enrollments" ->
            {"user_id", "portal_course_id", "progress_percentage", "xp_earned",
             "scroll_coins_earned", "current_lesson_id", "status"}
      [] t = "ai_tutor_sessions" ->
            {"user_id", "portal_course_id", "tutor_type", "faculty_context",
             "session_data", "conversation_history", "satisfaction_rating", "status"}
      [] t = "scroll_nodes" ->
            {"name", "location", "country", "coordinator_id", "status",
             "sync_enabled", "node_type", "connectivity_level", "configuration"}
      [] t = "scholarships" ->
            {"name", "description", "amount", "currency", "scholarship_type",
             "eligibility_criteria", "max_recipients", "current_recipients",
             "is_active"}

\* the rows `rows` of table t as read in the shared columns
SharedValues(t, rows) ==
    {[c \in SharedColumns(t) \cap DOMAIN x |-> x[c]] : x \in rows}

\* both sessions have committed the same insertions
InStep == pending[PortalSession] = <<>> /\ pending[SimpleSession] = <<>>

\* C24: for the same sequence of insertions with fields both schemas declare,
\* a commit on the simplified schema returns exactly when the commit of the same
\* insertions on the portal schema returned; and after both, each of the five
\* entities holds as many rows in one store as in the other, with equal values in
\* every shared column that is no identifier and no timestamp.
C24_SchemasAgree ==
    /\ [][(Commits(SimpleSession) /\ last.sess = PortalSession /\ last.op = "commit")
             => last'.result = last.result]_vars
    /\ [](InStep
            => \A t \in ParallelTables :
                  /\ Cardinality(db[t]) = Cardinality(db[Simplified(t)])
                  /\ SharedValues(t, db[t])
                        = SharedValues(t, db[Simplified(t)]))

====
